---- MODULE Spec2Model ----
(***************************************************************************)
(* GuardianAI (guardian_network.py): the emotion / energy update engine,   *)
(* the request handler respond(), the background loop and the interactive  *)
(* loop of __main__.                                                       *)
(*                                                                         *)
(* Numbers.  The program's floats are modelled in fixed point: One stands  *)
(* for 1.0, so 0.1 is One \div 10 and 0.05 is One \div 20.  A product by   *)
(* 1.1 is (p * 11) \div 10, rounded down to the unit 1/One.                *)
(*                                                                         *)
(* Strings.  A text is a sequence of one-character strings, so that        *)
(* lower(), strip() and the substring test are computed, not assumed.      *)
(***************************************************************************)
EXTENDS Integers, Sequences, FiniteSets, TLC

VARIABLES
    memory,             \* self.memory
    knowledge_base,     \* self.knowledge_base
    recursion_count,    \* self.recursion_count
    energy_limit,       \* self.energy_limit
    emotions,           \* self.emotions
    perception,         \* self.perception
    OPENCV_AVAILABLE,   \* module flag, fixed at import
    PYAUDIO_AVAILABLE,  \* module flag, fixed at import
    IMAGE_GENERATION_AVAILABLE, \* module flag, fixed at import
    main_pc,            \* the interactive loop: "input", "respond", "done", "crashed"
    user_input,         \* the line the interactive loop has read and stripped
    bg_pc,              \* the background thread: "thoughts", "analyze", "dead"
    call,               \* observation of the last respond() call
    bg_obs,             \* observation of the background thread: iterations
                        \* started and completed, metrics samples taken
    saves,              \* number of state saves performed so far
    turns,              \* lines read by the interactive loop so far
    fg_pc,              \* fine-grained position of respond() (SpecConc)
    fg_key,             \* index of the key the clamp loop is at (SpecConc)
    fg_tmp,             \* value the clamp loop has loaded (SpecConc)
    bg_tmp,             \* value the background += has loaded (SpecConc)
    race                \* observation of one racing pair of operations (SpecConc)

vars == << memory, knowledge_base, recursion_count, energy_limit, emotions,
           perception, OPENCV_AVAILABLE, PYAUDIO_AVAILABLE,
           IMAGE_GENERATION_AVAILABLE, main_pc, user_input, bg_pc, call, bg_obs,
           saves, turns,
           fg_pc, fg_key, fg_tmp, bg_tmp, race >>

-----------------------------------------------------------------------------
(* Bounds of the model *)

MaxTurns == 2           \* Spec: lines the interactive loop reads in a run
MaxIterations == 2      \* Spec: iterations the background loop starts in a run
LoopTurns == 1          \* SpecLoop: lines the interactive loop reads
LoopIterations == 5     \* SpecLoop: iterations the background loop starts
DreamTurns == 2         \* SpecDream: lines the interactive loop reads

(* Program constants *)

One == 1000000          \* 1.0 in fixed point
RecursionLimit == 100   \* the recursion counter wraps from here back to 1

Step == One \div 10     \* 0.1
HalfStep == One \div 20 \* 0.05

-----------------------------------------------------------------------------
(* Texts *)

Upper == <<"A","B","C","D","E","F","G","H","I","J","K","L","M",
           "N","O","P","Q","R","S","T","U","V","W","X","Y","Z">>
LowerLetters == <<"a","b","c","d","e","f","g","h","i","j","k","l","m",
                  "n","o","p","q","r","s","t","u","v","w","x","y","z">>

\* str.lower() on one character
LowerChar(c) ==
    IF \E i \in 1..26 : Upper[i] = c
    THEN LowerLetters[CHOOSE i \in 1..26 : Upper[i] = c]
    ELSE c

\* str.lower()
Lower(s) == [i \in 1..Len(s) |-> LowerChar(s[i])]

\* `sub in s`
Contains(sub, s) ==
    \E i \in 1..(Len(s) - Len(sub) + 1) : SubSeq(s, i, i + Len(sub) - 1) = sub

\* str.strip() (blanks only)
Strip(s) ==
    IF \A i \in 1..Len(s) : s[i] = " "
    THEN << >>
    ELSE LET first == CHOOSE i \in 1..Len(s) :
                          s[i] # " " /\ \A j \in 1..(i - 1) : s[j] = " "
             last == CHOOSE i \in 1..Len(s) :
                          s[i] # " " /\ \A j \in (i + 1)..Len(s) : s[j] = " "
         IN SubSeq(s, first, last)

T_dream == <<"d","r","e","a","m">>
T_exit == <<"e","x","i","t">>
T_quit == <<"q","u","i","t">>
T_goodbye == <<"g","o","o","d","b","y","e">>

\* The lines typed at the prompt
Inputs ==
    { <<"h","i">>,
      <<"m","y"," ","D","R","E","A","M","S">>,
      <<"G","o","o","d","b","y","e">>,
      <<"e","x","i","t"," ","n","o","w">>,
      <<" ","E","x","i","t"," ">>,
      <<"Q","U","I","T">> }

-----------------------------------------------------------------------------
(* The optional libraries found at import, and the sensors *)

\* A missing cv2 behaves as a camera that never delivers a frame and a
\* missing pyaudio as a microphone that is never read, so the installation
\* with every optional library and the one with none span the flags.
Installations ==
    { [opencv |-> TRUE, pyaudio |-> TRUE, dalle |-> TRUE],
      [opencv |-> FALSE, pyaudio |-> FALSE, dalle |-> FALSE] }

\* (ram, cpu) as read by psutil.virtual_memory() and psutil.cpu_percent()
LoadSamples == { <<10, 10>>, <<50, 90>>, <<80, 80>>, <<90, 10>> }
BatteryPercents == {15, 20, 100}

\* psutil.sensors_battery(): None (the empty tuple here) or a reading
NoBattery == << >>
BatteryReads == {NoBattery} \cup { <<p>> : p \in BatteryPercents }

\* the first read is only tested for presence
PresenceReads == {NoBattery, <<100>>}

-----------------------------------------------------------------------------
(* The emotion vector *)

EmotionNames ==
    <<"happiness", "curiosity", "stress", "anxiety", "confidence", "frustration">>

EmotionKeys == { EmotionNames[i] : i \in 1..Len(EmotionNames) }

InitEmotions ==
    [ happiness |-> 5 * Step, curiosity |-> 6 * Step, stress |-> 2 * Step,
      anxiety |-> Step, confidence |-> 5 * Step, frustration |-> 0 ]

InitPerception ==
    [ visual_activity |-> FALSE, audio_detected |-> FALSE,
      cpu_load |-> 0, ram_usage |-> 0, battery_level |-> 100 ]

Min(a, b) == IF a < b THEN a ELSE b
Max(a, b) == IF a > b THEN a ELSE b

\* a clamp that forgets the upper end
ClampLowOnly(v) == Max(0, v)

\* max(0.0, min(1.0, v))
Clamp(v) == Max(0, Min(One, v))

\* the battery expression of monitor_resources: the first read decides
\* whether a battery is present, the second read supplies the percentage
BatteryRaises(bat1, bat2) == bat1 # NoBattery /\ bat2 = NoBattery

BatteryValue(bat1, bat2) == IF bat1 = NoBattery THEN 100 ELSE bat2[1]

\* what the two reads of psutil.sensors_battery() found: no battery, a
\* battery at both reads, or a battery that was gone at the second read
BatterySensor(bat1, bat2) ==
    IF bat1 = NoBattery THEN "absent"
    ELSE IF bat2 = NoBattery THEN "lost"
    ELSE "present"

\* thresholds taken as inclusive (>= 80, <= 20)
BranchInclusive(ram, cpu, battery) ==
    IF ram >= 80 \/ cpu >= 80 THEN "overload"
    ELSE IF battery <= 20 THEN "low_battery"
    ELSE "recovery"

\* which branch of monitor_resources a sample takes
Branch(ram, cpu, battery) ==
    IF ram > 80 \/ cpu > 80 THEN "overload"
    ELSE IF battery < 20 THEN "low_battery"
    ELSE "recovery"

\* a recovery that forgets min(1.0, ...)
EnergyAfterUncapped(energy, ram, cpu, battery) ==
    CASE Branch(ram, cpu, battery) = "overload" -> One \div 2
      [] Branch(ram, cpu, battery) = "low_battery" -> (3 * One) \div 10
      [] OTHER -> (energy * 11) \div 10

\* a recovery by the factor 1.05 in place of 1.1
EnergyAfterSlow(energy, ram, cpu, battery) ==
    CASE Branch(ram, cpu, battery) = "overload" -> One \div 2
      [] Branch(ram, cpu, battery) = "low_battery" -> (3 * One) \div 10
      [] OTHER -> Min(One, (energy * 21) \div 20)

\* self.energy_limit after the branch
EnergyAfter(energy, ram, cpu, battery) ==
    CASE Branch(ram, cpu, battery) = "overload" -> One \div 2
      [] Branch(ram, cpu, battery) = "low_battery" -> (3 * One) \div 10
      [] OTHER -> Min(One, (energy * 11) \div 10)

\* deltas with `if battery < 20` in place of `elif battery < 20`
DeltasNotExclusive(em, ram, cpu, battery) ==
    LET a == IF ram > 80 \/ cpu > 80
             THEN [em EXCEPT !.stress = @ + Step, !.happiness = @ - Step]
             ELSE em
    IN IF battery < 20
       THEN [a EXCEPT !.anxiety = @ + Step, !.confidence = @ - Step]
       ELSE IF ram > 80 \/ cpu > 80 THEN a
       ELSE [a EXCEPT !.happiness = @ + HalfStep]

\* self.emotions after the branch's deltas, before the clamp loop
Deltas(em, ram, cpu, battery) ==
    CASE Branch(ram, cpu, battery) = "overload" ->
            [em EXCEPT !.stress = @ + Step, !.happiness = @ - Step]
      [] Branch(ram, cpu, battery) = "low_battery" ->
            [em EXCEPT !.anxiety = @ + Step, !.confidence = @ - Step]
      [] OTHER ->
            [em EXCEPT !.happiness = @ + HalfStep]

\* the clamp loop over every key
ClampAll(em) == [k \in EmotionKeys |-> Clamp(em[k])]

\* self.emotions after monitor_resources
EmotionsAfter(em, ram, cpu, battery) == ClampAll(Deltas(em, ram, cpu, battery))

\* self.perception after monitor_resources
PerceptionAfter(p, ram, cpu, battery) ==
    [p EXCEPT !.cpu_load = cpu, !.ram_usage = ram, !.battery_level = battery]

-----------------------------------------------------------------------------
(* process_thoughts and dream_state *)

\* process_thoughts: the bookkeeping of one update cycle.  respond() and
\* run_background_process call it; guardian_network.py does not define it, so
\* its effect is taken from the specification (the recursion counter goes up
\* by one and wraps from RecursionLimit back to 1).
ProcessThoughts(rc) == IF rc >= RecursionLimit THEN 1 ELSE rc + 1

DreamMarker == " - processed in dream-state"

\* a dream_state without the `if not self.memory: return` guard, dreaming of
\* an empty fragment
DreamMemoryUnguarded(mem, pick) ==
    IF mem = << >> THEN << <<DreamMarker>> >>
    ELSE Append(mem, Append(mem[pick], DreamMarker))

\* a dream_state that rewrites the chosen entry instead of appending
DreamMemoryInPlace(mem, pick) ==
    IF mem = << >> THEN mem
    ELSE [mem EXCEPT ![pick] = Append(mem[pick], DreamMarker)]

\* self.memory after dream_state, pick being random.choice's index
DreamMemory(mem, pick) ==
    IF mem = << >> THEN mem ELSE Append(mem, Append(mem[pick], DreamMarker))

\* self.knowledge_base after dream_state
DreamKnowledge(kb, mem, pick, rc) ==
    IF mem = << >> THEN kb
    ELSE [k \in DOMAIN kb \cup {rc} |->
             IF k = rc THEN Append(mem[pick], DreamMarker) ELSE kb[k]]

\* a dream_state that reaches generate_dream_visual before the guard
DreamRaisesUnguarded(mem, image_available) == image_available

\* generate_dream_visual names the module dalle, which is never bound
DreamRaises(mem, image_available) == mem # << >> /\ image_available

DreamPicks(mem) == IF mem = << >> THEN {0} ELSE 1..Len(mem)

-----------------------------------------------------------------------------
(* respond *)

DreamAck == [kind |-> "dream_ack", count |-> 0]
StatusOf(rc) == [kind |-> "status", count |-> rc]
NoResponse == [kind |-> "none", count |-> 0]

\* the test that sends respond to dream_state
IsDream(text) == Contains(T_dream, Lower(text))

\* the test that ends the interactive loop
IsExit(line) == Lower(Strip(line)) \in {T_exit, T_quit}

\* what the last respond() call did: the calls it made, how it ended
NoCall ==
    [ monitor_calls |-> 0, dream_calls |-> 0, save_calls |-> 0,
      sensor |-> "none", outcome |-> "none", response |-> NoResponse ]

\* respond(text) as one call; the sensors read ram, cpu and the battery twice
Respond(text, ram, cpu, bat1, bat2, pick) ==
    LET battery == BatteryValue(bat1, bat2)
        rc == ProcessThoughts(recursion_count)
        seen == [NoCall EXCEPT !.sensor = BatterySensor(bat1, bat2)]
    IN
    IF BatteryRaises(bat1, bat2)
    THEN \* monitor_resources raises before it stores anything
         /\ call' = [seen EXCEPT !.outcome = "raised"]
         /\ main_pc' = "crashed"
         /\ UNCHANGED << memory, knowledge_base, recursion_count, energy_limit,
                         emotions, perception >>
    ELSE /\ perception' = PerceptionAfter(perception, ram, cpu, battery)
         /\ energy_limit' = EnergyAfter(energy_limit, ram, cpu, battery)
         /\ emotions' = EmotionsAfter(emotions, ram, cpu, battery)
         /\ recursion_count' = rc
         /\ IF IsDream(text)
            THEN /\ memory' = DreamMemory(memory, pick)
                 /\ knowledge_base' = DreamKnowledge(knowledge_base, memory, pick, rc)
                 /\ IF DreamRaises(memory, IMAGE_GENERATION_AVAILABLE)
                    THEN /\ call' = [seen EXCEPT !.monitor_calls = 1,
                                        !.dream_calls = 1, !.outcome = "raised"]
                         /\ main_pc' = "crashed"
                    ELSE /\ call' = [seen EXCEPT !.monitor_calls = 1,
                                        !.dream_calls = 1, !.outcome = "returned",
                                        !.response = DreamAck]
                         /\ main_pc' = "input"
            ELSE /\ call' = [seen EXCEPT !.monitor_calls = 1,
                                !.outcome = "returned", !.response = StatusOf(rc)]
                 /\ main_pc' = "input"
                 /\ UNCHANGED << memory, knowledge_base >>

-----------------------------------------------------------------------------
(* The interactive loop of __main__ *)

\* what one racing pair of operations was given (SpecConc)
NoRace == [ ram |-> 0, cpu |-> 0, battery |-> 100, frame |-> FALSE ]

ConcIdle == << fg_pc, fg_key, fg_tmp, bg_tmp, race >>
Flags == << OPENCV_AVAILABLE, PYAUDIO_AVAILABLE, IMAGE_GENERATION_AVAILABLE >>

\* user_input = input().strip(); exit/quit leaves the loop
MainRead(line, maxTurns) ==
    /\ main_pc = "input"
    /\ turns < maxTurns
    /\ turns' = turns + 1
    /\ user_input' = Strip(line)
    /\ main_pc' = IF IsExit(line) THEN "done" ELSE "respond"
    /\ call' = NoCall
    /\ UNCHANGED << memory, knowledge_base, recursion_count, energy_limit,
                    emotions, perception, Flags, bg_pc, bg_obs, saves,
                    ConcIdle >>

\* response = ai.respond(user_input); print(response)
MainRespond(ram, cpu, bat1, bat2) ==
    /\ main_pc = "respond"
    /\ \E pick \in DreamPicks(memory) :
           Respond(user_input, ram, cpu, bat1, bat2, pick)
    /\ UNCHANGED << Flags, user_input, bg_pc, bg_obs, saves, turns, ConcIdle >>

-----------------------------------------------------------------------------
(* The background thread: run_background_process *)

AudioOutcomes == {"error", "silent", "sound"}

\* self.emotions after the camera part of analyze_sensory_input
AnalyzeEmotions(em, opencv, ret) ==
    IF opencv /\ ret THEN [em EXCEPT !.curiosity = @ + Step] ELSE em

\* self.perception after analyze_sensory_input
AnalyzePerception(p, opencv, ret, pyaudio, audio) ==
    LET v == IF opencv THEN [p EXCEPT !.visual_activity = ret] ELSE p
    IN IF pyaudio /\ audio # "error"
       THEN [v EXCEPT !.audio_detected = (audio = "sound")]
       ELSE v

\* the microphone cannot be opened or read: the call raises
AnalyzeRaises(pyaudio, audio) == pyaudio /\ audio = "error"

\* self.process_thoughts() of one iteration
BgProcessThoughts(maxIterations) ==
    /\ main_pc \in {"input", "respond"}
    /\ bg_pc = "thoughts"
    /\ bg_obs.started < maxIterations
    /\ recursion_count' = ProcessThoughts(recursion_count)
    /\ bg_pc' = "analyze"
    /\ bg_obs' = [bg_obs EXCEPT !.started = @ + 1]
    /\ UNCHANGED << memory, knowledge_base, energy_limit, emotions, perception,
                    Flags, main_pc, user_input, call, saves, turns, ConcIdle >>

\* self.analyze_sensory_input() of one iteration
BgAnalyze(ret, audio) ==
    /\ main_pc \in {"input", "respond"}
    /\ bg_pc = "analyze"
    /\ emotions' = AnalyzeEmotions(emotions, OPENCV_AVAILABLE, ret)
    /\ perception' = AnalyzePerception(perception, OPENCV_AVAILABLE, ret,
                                       PYAUDIO_AVAILABLE, audio)
    /\ IF AnalyzeRaises(PYAUDIO_AVAILABLE, audio)
       THEN /\ bg_pc' = "dead"
            /\ bg_obs' = [bg_obs EXCEPT !.error = TRUE]
       ELSE /\ bg_pc' = "thoughts"    \* time.sleep(5), then the next iteration
            /\ bg_obs' = [bg_obs EXCEPT !.completed = @ + 1]
    /\ UNCHANGED << memory, knowledge_base, recursion_count, energy_limit,
                    Flags, main_pc, user_input, call, saves, turns, ConcIdle >>

-----------------------------------------------------------------------------
(* The program, every method call taken as one step *)

Init ==
    /\ memory = << >>
    /\ knowledge_base = << >>
    /\ recursion_count = 0
    /\ energy_limit = One
    /\ emotions = InitEmotions
    /\ perception = InitPerception
    /\ \E inst \in Installations :
           /\ OPENCV_AVAILABLE = inst.opencv
           /\ PYAUDIO_AVAILABLE = inst.pyaudio
           /\ IMAGE_GENERATION_AVAILABLE = inst.dalle
    /\ main_pc = "input"
    /\ bg_pc = "thoughts"
    /\ call = NoCall
    /\ bg_obs = [started |-> 0, completed |-> 0, sampled |-> 0, error |-> FALSE]
    /\ saves = 0
    /\ turns = 0
    /\ user_input = << >>
    /\ fg_pc = "idle"
    /\ fg_key = 0
    /\ fg_tmp = 0
    /\ bg_tmp = 0
    /\ race = NoRace

Next ==
    \/ \E line \in Inputs : MainRead(line, MaxTurns)
    \/ \E load \in LoadSamples, bat1 \in PresenceReads, bat2 \in BatteryReads :
            MainRespond(load[1], load[2], bat1, bat2)
    \/ BgProcessThoughts(MaxIterations)
    \/ \E ret \in BOOLEAN, audio \in AudioOutcomes : BgAnalyze(ret, audio)

Spec == Init /\ [][Next]_vars

\* The same program, bounded so that the background loop runs longer
LoopNext ==
    \/ \E line \in Inputs : MainRead(line, LoopTurns)
    \/ \E load \in LoadSamples, bat1 \in PresenceReads, bat2 \in BatteryReads :
            MainRespond(load[1], load[2], bat1, bat2)
    \/ BgProcessThoughts(LoopIterations)
    \/ \E ret \in BOOLEAN, audio \in AudioOutcomes : BgAnalyze(ret, audio)

SpecLoop == Init /\ [][LoopNext]_vars

-----------------------------------------------------------------------------
(* dream_state on a memory log that holds entries.  No operation of the    *)
(* class fills self.memory, so the log is given: the object is taken with  *)
(* one of a few logs, and with the recursion counter fresh or at its       *)
(* limit, and the interactive loop runs on it.                             *)

\* an entry is the sequence of the pieces it was formatted from
DreamMemories ==
    { << <<"fact A">> >>,
      << <<"fact A">>, <<"fact B">> >> }

DreamCounts == {0, RecursionLimit}

DreamInit ==
    /\ memory \in DreamMemories
    /\ knowledge_base = << >>
    /\ recursion_count \in DreamCounts
    /\ energy_limit = One
    /\ emotions = InitEmotions
    /\ perception = InitPerception
    /\ \E inst \in Installations :
           /\ OPENCV_AVAILABLE = inst.opencv
           /\ PYAUDIO_AVAILABLE = inst.pyaudio
           /\ IMAGE_GENERATION_AVAILABLE = inst.dalle
    /\ main_pc = "input"
    /\ bg_pc = "thoughts"
    /\ call = NoCall
    /\ bg_obs = [started |-> 0, completed |-> 0, sampled |-> 0, error |-> FALSE]
    /\ saves = 0
    /\ turns = 0
    /\ user_input = << >>
    /\ fg_pc = "idle"
    /\ fg_key = 0
    /\ fg_tmp = 0
    /\ bg_tmp = 0
    /\ race = NoRace

DreamNext ==
    \/ \E line \in Inputs : MainRead(line, DreamTurns)
    \/ \E load \in LoadSamples, bat1 \in PresenceReads, bat2 \in BatteryReads :
            MainRespond(load[1], load[2], bat1, bat2)

SpecDream == DreamInit /\ [][DreamNext]_vars

------------------------------------------------------------------------------
(* Long runs of the recovery branch of monitor_resources: the first        *)
(* respond() call takes any sample, which leaves energy_limit at 1.0, 0.5  *)
(* or 0.3 (every value a run of recovery cycles can start from), and the   *)
(* calls after it take samples that are neither overload nor low battery.  *)

RecoveryTurns == 15

\* a sample that is neither overload nor low battery (or no sample at all,
\* when the battery read raises)
RecoverySample(ram, cpu, bat1, bat2) ==
    IF BatteryRaises(bat1, bat2) THEN TRUE
    ELSE Branch(ram, cpu, BatteryValue(bat1, bat2)) = "recovery"

RecoveryNext ==
    \/ \E line \in Inputs : MainRead(line, RecoveryTurns)
    \/ \E load \in LoadSamples, bat1 \in PresenceReads, bat2 \in BatteryReads :
            /\ turns > 1 => RecoverySample(load[1], load[2], bat1, bat2)
            /\ MainRespond(load[1], load[2], bat1, bat2)

SpecRecovery == Init /\ [][RecoveryNext]_vars

-----------------------------------------------------------------------------
(* The program with respond() and one background iteration interleaved at  *)
(* the grain of the reads and writes of self.emotions: one respond() call  *)
(* races one iteration of run_background_process, both starting from the   *)
(* object as constructed.  No lock is taken anywhere in the class.         *)

\* user_input = input().strip(); respond(): monitor_resources up to the
\* branch (no location here is written by the background thread)
ConcBegin(line, ram, cpu, bat1, bat2) ==
    /\ main_pc = "input"
    /\ fg_pc = "idle"          \* the one respond() call of the pair
    /\ ~IsExit(line)
    /\ user_input' = Strip(line)
    /\ turns' = turns + 1
    /\ IF BatteryRaises(bat1, bat2)
       THEN /\ call' = [NoCall EXCEPT !.outcome = "raised",
                                      !.sensor = BatterySensor(bat1, bat2)]
            /\ main_pc' = "crashed"
            /\ fg_pc' = "raised"
            /\ UNCHANGED << energy_limit, emotions, perception, fg_key, race >>
       ELSE /\ perception' = PerceptionAfter(perception, ram, cpu,
                                             BatteryValue(bat1, bat2))
            /\ energy_limit' = EnergyAfter(energy_limit, ram, cpu,
                                           BatteryValue(bat1, bat2))
            /\ emotions' = Deltas(emotions, ram, cpu, BatteryValue(bat1, bat2))
            /\ race' = [race EXCEPT !.ram = ram, !.cpu = cpu,
                                    !.battery = BatteryValue(bat1, bat2)]
            /\ call' = [NoCall EXCEPT !.sensor = BatterySensor(bat1, bat2)]
            /\ main_pc' = "respond"
            /\ fg_pc' = "clamp_load"
            /\ fg_key' = 1
    /\ UNCHANGED << memory, knowledge_base, recursion_count, Flags, bg_pc,
                    bg_obs, saves, fg_tmp, bg_tmp >>

\* the clamp loop reads self.emotions[key]
ConcClampLoad ==
    /\ fg_pc = "clamp_load"
    /\ fg_tmp' = emotions[EmotionNames[fg_key]]
    /\ fg_pc' = "clamp_store"
    /\ UNCHANGED << memory, knowledge_base, recursion_count, energy_limit,
                    emotions, perception, Flags, main_pc, user_input, bg_pc,
                    call, bg_obs, saves, turns, fg_key, bg_tmp, race >>

\* the clamp loop writes self.emotions[key] = max(0.0, min(1.0, <value read>))
ConcClampStore ==
    /\ fg_pc = "clamp_store"
    /\ emotions' = [emotions EXCEPT ![EmotionNames[fg_key]] = Clamp(fg_tmp)]
    /\ IF fg_key = Len(EmotionNames)
       THEN fg_pc' = "finish" /\ fg_key' = 0
       ELSE fg_pc' = "clamp_load" /\ fg_key' = fg_key + 1
    /\ UNCHANGED << memory, knowledge_base, recursion_count, energy_limit,
                    perception, Flags, main_pc, user_input, bg_pc, call,
                    bg_obs, saves, turns, fg_tmp, bg_tmp, race >>

\* the rest of respond(): process_thoughts and the dispatch
ConcFinish ==
    /\ fg_pc = "finish"
    /\ recursion_count' = ProcessThoughts(recursion_count)
    /\ \E pick \in DreamPicks(memory) :
          IF IsDream(user_input)
          THEN /\ memory' = DreamMemory(memory, pick)
               /\ knowledge_base' = DreamKnowledge(knowledge_base, memory, pick,
                                        ProcessThoughts(recursion_count))
               /\ IF DreamRaises(memory, IMAGE_GENERATION_AVAILABLE)
                  THEN /\ call' = [call EXCEPT !.monitor_calls = 1,
                                      !.dream_calls = 1, !.outcome = "raised"]
                       /\ main_pc' = "crashed"
                       /\ fg_pc' = "raised"
                  ELSE /\ call' = [call EXCEPT !.monitor_calls = 1,
                                      !.dream_calls = 1, !.outcome = "returned",
                                      !.response = DreamAck]
                       /\ main_pc' = "input"
                       /\ fg_pc' = "done"
          ELSE /\ call' = [call EXCEPT !.monitor_calls = 1,
                              !.outcome = "returned",
                              !.response = StatusOf(ProcessThoughts(recursion_count))]
               /\ main_pc' = "input"
               /\ fg_pc' = "done"
               /\ UNCHANGED << memory, knowledge_base >>
    /\ UNCHANGED << energy_limit, emotions, perception, Flags, user_input,
                    bg_pc, bg_obs, saves, turns, fg_key, fg_tmp, bg_tmp, race >>

\* the background thread lives until the process ends by an error
BgAlive == main_pc # "crashed"

\* self.process_thoughts() of the iteration
ConcBgThoughts ==
    /\ BgAlive
    /\ bg_pc = "thoughts"
    /\ bg_obs.started = 0      \* the one iteration of the pair
    /\ recursion_count' = ProcessThoughts(recursion_count)
    /\ bg_pc' = "analyze"
    /\ bg_obs' = [bg_obs EXCEPT !.started = @ + 1]
    /\ UNCHANGED << memory, knowledge_base, energy_limit, emotions, perception,
                    Flags, main_pc, user_input, call, saves, turns, ConcIdle >>

\* analyze_sensory_input: the camera read, and the read half of
\* self.emotions["curiosity"] += 0.1
ConcBgLook(ret) ==
    /\ BgAlive
    /\ bg_pc = "analyze"
    /\ IF OPENCV_AVAILABLE
       THEN /\ perception' = [perception EXCEPT !.visual_activity = ret]
            /\ race' = [race EXCEPT !.frame = ret]
            /\ IF ret
               THEN bg_tmp' = emotions.curiosity /\ bg_pc' = "store"
               ELSE bg_tmp' = bg_tmp /\ bg_pc' = "listen"
       ELSE /\ bg_pc' = "listen"
            /\ UNCHANGED << perception, race, bg_tmp >>
    /\ UNCHANGED << memory, knowledge_base, recursion_count, energy_limit,
                    emotions, Flags, main_pc, user_input, call, bg_obs, saves,
                    turns, fg_pc, fg_key, fg_tmp >>

\* the write half of self.emotions["curiosity"] += 0.1
ConcBgStore ==
    /\ BgAlive
    /\ bg_pc = "store"
    /\ emotions' = [emotions EXCEPT !.curiosity = bg_tmp + Step]
    /\ bg_pc' = "listen"
    /\ UNCHANGED << memory, knowledge_base, recursion_count, energy_limit,
                    perception, Flags, main_pc, user_input, call, bg_obs,
                    saves, turns, ConcIdle >>

\* analyze_sensory_input: the microphone part, then time.sleep(5)
ConcBgListen(audio) ==
    /\ BgAlive
    /\ bg_pc = "listen"
    /\ perception' = AnalyzePerception(perception, FALSE, FALSE,
                                       PYAUDIO_AVAILABLE, audio)
    /\ IF AnalyzeRaises(PYAUDIO_AVAILABLE, audio)
       THEN /\ bg_pc' = "dead"
            /\ bg_obs' = [bg_obs EXCEPT !.error = TRUE]
       ELSE /\ bg_pc' = "sleeping"
            /\ bg_obs' = [bg_obs EXCEPT !.completed = @ + 1]
    /\ UNCHANGED << memory, knowledge_base, recursion_count, energy_limit,
                    emotions, Flags, main_pc, user_input, call, saves, turns,
                    ConcIdle >>

ConcNext ==
    \/ \E line \in Inputs, load \in LoadSamples,
          bat1 \in PresenceReads, bat2 \in BatteryReads :
            ConcBegin(line, load[1], load[2], bat1, bat2)
    \/ ConcClampLoad
    \/ ConcClampStore
    \/ ConcFinish
    \/ ConcBgThoughts
    \/ \E ret \in BOOLEAN : ConcBgLook(ret)
    \/ ConcBgStore
    \/ \E audio \in AudioOutcomes : ConcBgListen(audio)

SpecConc == Init /\ [][ConcNext]_vars

-----------------------------------------------------------------------------
(* Properties *)

\* a step that is one whole respond() call
RespondStep == main_pc = "respond" /\ main_pc' # "respond"

\* a respond() step whose monitor_resources call ran to its end
MonitorCompleted == RespondStep /\ call'.monitor_calls = 1

InRange(v) == v >= 0 /\ v <= One

\* C1: after every completed call of monitor_resources, whatever the sample
\* and the prior state, every value of the emotions map is in [0,1].
C1_ClampedAfterMonitor ==
    [][MonitorCompleted => \A k \in EmotionKeys : InRange(emotions'[k])]_vars

\* a completed monitor_resources call after five background iterations: a
\* curiosity that had left the range is back at 1.0
C1_Witness ==
    /\ call.monitor_calls = 1
    /\ bg_obs.completed >= 5
    /\ emotions.curiosity = One

\* C3: monitor_resources sets the energy limit to 0.5 when ram > 80 or
\* cpu > 80, otherwise to 0.3 when battery < 20, otherwise to
\* min(1.0, p * 1.1) for the prior limit p.
C3_EnergyLimitRule ==
    [][MonitorCompleted =>
         energy_limit' =
            IF perception'.ram_usage > 80 \/ perception'.cpu_load > 80
            THEN One \div 2
            ELSE IF perception'.battery_level < 20
            THEN (3 * One) \div 10
            ELSE Min(One, (energy_limit * 11) \div 10)]_vars

\* a recovery cycle from the prior limit 0.5 has produced 0.55
C3_Witness ==
    /\ call.monitor_calls = 1
    /\ perception.ram_usage <= 80 /\ perception.cpu_load <= 80
    /\ perception.battery_level >= 20
    /\ energy_limit = (11 * (One \div 2)) \div 10

\* the delta the claim gives emotion k for a sample
ClaimedDelta(k, ram, cpu, battery) ==
    IF ram > 80 \/ cpu > 80
    THEN (IF k = "stress" THEN Step ELSE IF k = "happiness" THEN 0 - Step ELSE 0)
    ELSE IF battery < 20
    THEN (IF k = "anxiety" THEN Step ELSE IF k = "confidence" THEN 0 - Step ELSE 0)
    ELSE (IF k = "happiness" THEN HalfStep ELSE 0)

C5_DecayEveryCycle ==
    [][MonitorCompleted =>
         \A k \in {"curiosity", "frustration"} :
            /\ emotions'[k] >= 0
            /\ emotions'[k] <= emotions[k]
            /\ emotions[k] > 0 => emotions'[k] < emotions[k]]_vars

\* C2: in every reachable state every emotion value is in [0,1]; curiosity
\* never exceeds 1.0 after analyze_sensory_input has added 0.1 to it.
C2_AlwaysInRange == \A k \in EmotionKeys : InRange(emotions[k])

\* the two sequential orders of the racing pair, from the object as constructed
SeqRespondThenLoop ==
    AnalyzeEmotions(EmotionsAfter(InitEmotions, race.ram, race.cpu, race.battery),
                    OPENCV_AVAILABLE, race.frame)
SeqLoopThenRespond ==
    EmotionsAfter(AnalyzeEmotions(InitEmotions, OPENCV_AVAILABLE, race.frame),
                  race.ram, race.cpu, race.battery)

\* C6: a background iteration and a respond() call serialize their access to
\* the emotions: once both have ended, the emotion values are those of one of
\* the two sequential orders (no update is lost).
C6_NoLostUpdate ==
    (fg_pc = "done" /\ bg_pc \in {"sleeping", "dead"})
        => emotions \in {SeqRespondThenLoop, SeqLoopThenRespond}

\* C7: the background loop runs for the lifetime of the process; no error
\* raised inside an iteration ever stops it.
C7_LoopNeverStops == bg_pc # "dead"

\* C8: respond returns a response for every input and state; no call ends in
\* an error propagated to the caller.
C8_RespondAlwaysReturns == call.outcome # "raised" /\ main_pc # "crashed"

\* a text with none of the trigger substrings
NoTrigger(text) ==
    /\ ~Contains(T_dream, Lower(text))
    /\ ~Contains(T_goodbye, Lower(text))
    /\ ~Contains(T_exit, Lower(text))

\* C9: every call of respond performs exactly one monitor_resources; an input
\* with "dream" in any letter case invokes dream_state exactly once and
\* returns the dream acknowledgement; an input with no trigger invokes no
\* dream_state and returns the status string with the current counter.
C9_Dispatch ==
    [][RespondStep =>
         /\ call'.monitor_calls = 1
         /\ Contains(T_dream, Lower(user_input)) =>
               call'.dream_calls = 1 /\ call'.response = DreamAck
         /\ NoTrigger(user_input) =>
               call'.dream_calls = 0
               /\ call'.response = StatusOf(recursion_count')]_vars

\* C10: a returned respond() call whose input holds "goodbye" or "exit" has
\* invoked save and returns a farewell; the interactive loop has ended on
\* exit/quit only after a save.
C10_SaveOnShutdown ==
    /\ (call.outcome = "returned"
          /\ (Contains(T_goodbye, Lower(user_input))
                \/ Contains(T_exit, Lower(user_input))))
        => (call.save_calls >= 1 /\ call.response.kind = "farewell")
    /\ main_pc = "done" => saves >= 1

\* C11: dream_state on an empty memory log is a no-op and no error: memory
\* stays empty, knowledge_base is unchanged and the call returns normally.
C11_DreamOnEmptyIsNoOp ==
    [][(RespondStep /\ call'.dream_calls = 1 /\ memory = << >>) =>
         /\ memory' = << >>
         /\ Len(memory') = Len(memory)
         /\ knowledge_base' = knowledge_base
         /\ call'.outcome = "returned"]_vars

\* the first respond() call was a dream on the empty log, with the dalle
\* import present, and returned
C11_Witness ==
    /\ turns = 1
    /\ call.dream_calls = 1
    /\ call.outcome = "returned"
    /\ IMAGE_GENERATION_AVAILABLE
    /\ memory = << >>

\* C16: in every reachable state the energy limit is in [0.0, 1.0].
C16_EnergyInRange == energy_limit >= 0 /\ energy_limit <= One

\* a recovery cycle from the limit 1.0: 1.1 was cut back to 1.0
C16_Witness ==
    /\ turns = 1
    /\ call.monitor_calls = 1
    /\ perception.ram_usage <= 80 /\ perception.cpu_load <= 80
    /\ perception.battery_level >= 20
    /\ energy_limit = One

\* C17: the thresholds are strict.  A sample with cpu <= 80, ram <= 80 and
\* battery >= 20 (cpu = ram = 80 and battery = 20 included) takes the recovery
\* branch: happiness increases or stays at 1.0, the energy limit becomes
\* min(1.0, previous * 1.1), stress and anxiety do not increase.
C17_StrictThresholds ==
    [][(MonitorCompleted /\ perception'.cpu_load <= 80
            /\ perception'.ram_usage <= 80 /\ perception'.battery_level >= 20) =>
         /\ emotions'.happiness > emotions.happiness \/ emotions'.happiness = One
         /\ emotions'.happiness = Min(One, emotions.happiness + HalfStep)
         /\ energy_limit' = Min(One, (energy_limit * 11) \div 10)
         /\ emotions'.stress <= emotions.stress
         /\ emotions'.anxiety <= emotions.anxiety]_vars

\* the first cycle had cpu = 80, ram = 80 and battery = 20 exactly: happiness
\* went from 0.5 to 0.55, stress and anxiety stayed, the limit stayed 1.0
C17_Witness ==
    /\ turns = 1
    /\ call.monitor_calls = 1
    /\ perception.cpu_load = 80 /\ perception.ram_usage = 80
    /\ perception.battery_level = 20
    /\ emotions.happiness = 5 * Step + HalfStep
    /\ emotions.stress = 2 * Step /\ emotions.anxiety = Step
    /\ energy_limit = One

\* C19: in every reachable state the memory log and the knowledge map are
\* empty.
C19_MemoryStaysEmpty == memory = << >> /\ knowledge_base = << >>

\* two respond() calls, the last one a dream, and a background iteration have
\* run; nothing was remembered
C19_Witness ==
    /\ turns = 2
    /\ call.dream_calls = 1
    /\ call.outcome = "returned"
    /\ bg_obs.completed >= 1
    /\ memory = << >> /\ knowledge_base = << >>

\* C12: dream_state on a non-empty memory log M appends exactly one entry:
\* afterwards memory is M followed by m + " - processed in dream-state" for
\* some entry m of M; the length grows by one and the entries of M keep
\* their values and order.
C12_DreamAppendsOne ==
    [][(RespondStep /\ call'.dream_calls = 1 /\ memory # << >>) =>
         /\ Len(memory') = Len(memory) + 1
         /\ SubSeq(memory', 1, Len(memory)) = memory
         /\ \E i \in 1..Len(memory) :
               memory'[Len(memory')] =
                   memory[i] \o <<" - processed in dream-state">>]_vars

\* from the log ["fact A"], one dream has given
\* ["fact A", "fact A - processed in dream-state"]
C12_Witness ==
    /\ turns = 1
    /\ call.dream_calls = 1
    /\ memory = << <<"fact A">>,
                   <<"fact A", " - processed in dream-state">> >>

\* a step that is the process_thoughts call of a background iteration
BgCycleStep == bg_pc = "thoughts" /\ bg_pc' = "analyze"

\* C13: every update cycle (each background iteration, each respond call)
\* increments the recursion counter by one, an increment from 100 yields 1,
\* and the counter is at most 100 in every reachable state.
C13_CounterCycle ==
    /\ [](recursion_count <= 100)
    /\ [][(RespondStep \/ BgCycleStep) =>
            recursion_count' =
               IF recursion_count = 100 THEN 1 ELSE recursion_count + 1]_vars

\* C14: monitor_resources never raises when the battery sensor is
\* unavailable, also when the battery is gone at the second of the two
\* sensors_battery() reads: the battery value is then 100 and the low-battery
\* branch is not taken.
C14_BatteryUnavailable ==
    call.sensor \in {"absent", "lost"} =>
        /\ call.outcome # "raised"
        /\ call.monitor_calls = 1
        /\ perception.battery_level = 100
        /\ (perception.ram_usage <= 80 /\ perception.cpu_load <= 80) =>
               energy_limit # (3 * One) \div 10

\* C15: no background iteration completes without having sampled the
\* metrics and applied the emotion update for that sample.
C15_IterationSamples == bg_obs.sampled >= bg_obs.completed

\* a respond() step whose monitor_resources took the recovery branch
RecoveryStep ==
    /\ MonitorCompleted
    /\ Branch(perception'.ram_usage, perception'.cpu_load,
              perception'.battery_level) = "recovery"

\* C18: a monitor_resources cycle on a sample that is neither overload nor
\* low battery never decreases energy_limit and keeps it at 1.0 once there,
\* and 13 such cycles in a row bring it to exactly 1.0 from every value a
\* run can start from, the lowest one 0.3 included.
C18_EnergyRecovery ==
    /\ [][RecoveryStep => energy_limit' >= energy_limit]_vars
    /\ [][(RecoveryStep /\ energy_limit = One) => energy_limit' = One]_vars
    /\ []((main_pc = "input" /\ call.monitor_calls = 1 /\ turns - 1 >= 13)
             => energy_limit = One)

\* 13 recovery cycles after a first call on a low battery (the only cycle
\* that raises anxiety, to 0.2), energy_limit back at 1.0
C18_Witness ==
    /\ main_pc = "input"
    /\ call.monitor_calls = 1
    /\ turns - 1 = 13
    /\ emotions.anxiety = 2 * Step
    /\ energy_limit = One

====
